---- MODULE Spec2Model ----
(***************************************************************************)
(* The overlay editor (DocumentEditor, src/unnamed/part_000): its React    *)
(* state, the undo/redo history built by updateState and the two commit    *)
(* effects, the debounced text edit, the signature drag and the            *)
(* asynchronous document load.                                             *)
(*                                                                         *)
(* One action is one event handler (or timer / promise callback) together  *)
(* with the render and the effect flush it causes: handlers read the       *)
(* values of the last render (their closure), state setters are queued     *)
(* and applied in order, and the effects of the resulting render run with  *)
(* that render's values.                                                   *)
(***************************************************************************)
EXTENDS Integers, Sequences, FiniteSets, TLC

\* ------------------------------------------------------------- bounds
MaxBoxes == 2       \* text boxes on the page at once
MaxHist  == 3       \* commits are explored while currentStep + 2 <= MaxHist
MaxClock == 2       \* values Date.now() takes
MaxLoads == 1       \* document loads in flight at once
MaxOverlap == 2     \* document loads in flight at once when loads overlap
MaxSigBoxes == 1    \* text boxes in a signing session
MaxSaves == 1       \* handleSavePdf invocations in flight at once
MaxBurst == 3       \* text edits counted in one debounce window
MaxReads == 3       \* rejected testPdfRead promises not yet reported

\* ------------------------------------------------- program constants
DefaultSigX == 50           \* useState({ x: 50, y: 50 })
DefaultSigY == 50
MinMargin   == 10           \* Math.max(10, ...)
SigBoxW     == 160          \* container.width - 160
SigBoxH     == 60           \* container.height - 60
SigWidth    == 150          \* width: '150px'
SigCanvasW  == 500          \* SignatureCanvas width
SigCanvasH  == 200          \* SignatureCanvas height
InitialStep == -1           \* useState(-1)
BorderWidth == 2            \* border: '2px solid #666'

\* ------------------------------------------------------ input domains
NULL        == "null"
Drawings    == {"sig1"}                          \* what the pad can hold
BurstValues == {"a", "ab"}
Values      == {"a"}                            \* what the user types
ClickPoints == {[x |-> 100, y |-> 200]}         \* clicks inside the preview
DragDeltas  == {[dx |-> 1000, dy |-> 1000]}     \* pointer travel of a move
PdfFiles    == {"A", "B"}                       \* well-formed PDFs
BadFiles    == {"corrupt"}                      \* application/pdf, unparsable
OtherFiles  == {"txt"}                          \* not application/pdf
SessionFiles == {"A"}                           \* the document of a session
ContainerWidths == {600}                        \* rendered preview width
\* container and page sizes and overlay points given to the conversion
Geometries == {[cw |-> 800, ch |-> 1000, page |-> [width |-> 612, height |-> 792]],
               [cw |-> 600, ch |-> 804, page |-> [width |-> 600, height |-> 800]],
               [cw |-> 600, ch |-> 304, page |-> [width |-> 800, height |-> 400]]}
OverlayXs == {0, 50, 100, 400, 800}
OverlayYs == {0, 50, 200, 500, 1000}

\* firstPage.getSize() of each well-formed file
PageSize(f) == IF f = "A" THEN [width |-> 600, height |-> 800]
                          ELSE [width |-> 800, height |-> 400]
NoPage == [width |-> 0, height |-> 0]

Min(a, b) == IF a < b THEN a ELSE b
Max(a, b) == IF a > b THEN a ELSE b

\* Array.prototype.slice(0, n) for n >= 0
Slice(s, n) == SubSeq(s, 1, Min(n, Len(s)))

\* ------------------------------------------------- JavaScript numbers
\* a number is a fraction in lowest terms, an infinity (n its sign) or NaN;
\* rounding is not modelled
RECURSIVE GCD(_, _)
GCD(a, b) == IF b = 0 THEN a ELSE GCD(b, a % b)
Abs(n) == IF n < 0 THEN -n ELSE n
Sign(n) == IF n < 0 THEN -1 ELSE IF n = 0 THEN 0 ELSE 1
Norm(n, d) == LET g == GCD(Abs(n), d) IN [k |-> "num", n |-> n \div g, d |-> d \div g]
Num(i) == [k |-> "num", n |-> i, d |-> 1]
NaN == [k |-> "nan", n |-> 0, d |-> 1]
Infinity(sign) == [k |-> "inf", n |-> sign, d |-> 1]

\* a / b
Div(a, b) ==
    IF a.k = "nan" \/ b.k = "nan" THEN NaN
    ELSE IF a.k = "inf" THEN (IF b.k = "inf" THEN NaN
                             ELSE Infinity(IF b.n < 0 THEN -a.n ELSE a.n))
    ELSE IF b.k = "inf" THEN Num(0)
    ELSE IF b.n = 0 THEN (IF a.n = 0 THEN NaN ELSE Infinity(Sign(a.n)))
    ELSE Norm(a.n * b.d * Sign(b.n), a.d * Abs(b.n))

\* a * b
Mul(a, b) ==
    IF a.k = "nan" \/ b.k = "nan" THEN NaN
    ELSE IF a.k = "inf" \/ b.k = "inf"
         THEN (IF a.n = 0 \/ b.n = 0 THEN NaN ELSE Infinity(Sign(a.n) * Sign(b.n)))
    ELSE Norm(a.n * b.n, a.d * b.d)

\* a - b
Sub(a, b) ==
    IF a.k = "nan" \/ b.k = "nan" THEN NaN
    ELSE IF a.k = "inf" THEN (IF b.k = "inf" /\ b.n = a.n THEN NaN ELSE a)
    ELSE IF b.k = "inf" THEN Infinity(-b.n)
    ELSE Norm(a.n * b.d - b.n * a.d, a.d * b.d)

VARIABLES
    \* React state of DocumentEditor
    fileUrl, pdfBytes, pageDimensions, containerHeight,
    textInputs, signatureData, signaturePosition,
    history, currentStep, tempState,
    \* refs and environment
    pendingChanges,     \* pendingChanges.current
    timer,              \* the timeouts useDebouncedCallback has pending; ref
                        \* marks the one timeoutRef.current names
    drag,               \* listeners installed by handleSignatureMouseDown
    loads,              \* handleFileChange invocations that are suspended
    clock,              \* Date.now()
    containerWidth,     \* previewContainerRef.current.offsetWidth
    mounted,            \* DocumentEditor is mounted
    saves,              \* handleSavePdf invocations that are suspended
    \* observation of the last steps (not program state)
    lastOp, pre, undoBase, undoDepth, mark, sel,
    picked,             \* the document selected last, and whether a load was
                        \* in flight when it was selected
    call,               \* the arguments convertToPdfCoordinates was last given
    placed,             \* what it returned for them
    \* React state of PDFEditor (the canvas editor) and its environment
    canvas, pdfFile, isLoading,
    background,         \* the background image of the fabric canvas
    inputFile,          \* the file the file input holds
    reads               \* testPdfRead invocations whose promise is unsettled

progVars == <<fileUrl, pdfBytes, pageDimensions, containerHeight,
              textInputs, signatureData, signaturePosition,
              history, currentStep, tempState, pendingChanges,
              timer, drag, loads, clock, containerWidth>>
obsVars == <<lastOp, pre, undoBase, undoDepth, mark, sel>>
saveVars == <<saves, call, placed>>
canvasVars == <<canvas, pdfFile, isLoading, background, inputFile, reads>>
\* what the handlers of the editing session leave alone
otherVars == <<mounted, saveVars, canvasVars, picked>>
vars == <<progVars, obsVars, otherVars>>

\* ------------------------------------------------------ state records
\* the editable state a snapshot holds
Live == [textInputs |-> textInputs, signatureData |-> signatureData,
         signaturePosition |-> signaturePosition]

\* the values one render of the component sees
State == [textInputs |-> textInputs, signatureData |-> signatureData,
          signaturePosition |-> signaturePosition, history |-> history,
          currentStep |-> currentStep, tempState |-> tempState,
          pendingChanges |-> pendingChanges]

\* what the observation keeps of the state before the last step
Before == [len |-> Len(history), step |-> currentStep]

\* ------------------------------------------------- history mechanism
\* updateState, up to the call of updateFn: c is the render the calling
\* closure was created in, s the state the setters are queued on.
\* (updateStateTextOnly: a snapshot that keeps the text boxes only)
updateStateTextOnly(c, s) ==
    IF ~s.pendingChanges
    THEN [s EXCEPT !.tempState = <<[textInputs |-> c.textInputs,
                                    signatureData |-> NULL,
                                    signaturePosition |->
                                        [x |-> DefaultSigX, y |-> DefaultSigY]]>>,
                   !.pendingChanges = TRUE]
    ELSE s

updateState(c, s) ==
    IF ~s.pendingChanges
    THEN [s EXCEPT !.tempState = <<[textInputs |-> c.textInputs,
                                    signatureData |-> c.signatureData,
                                    signaturePosition |-> c.signaturePosition]>>,
                   !.pendingChanges = TRUE]
    ELSE s

\* setHistory(prev => [...prev.slice(0, currentStep + 1), tempState]) with
\* the rendered currentStep and tempState
NoPruneAppend(prev, step, temp) == Append(prev, temp)
SetHistoryUpdater(prev, step, temp) == Append(Slice(prev, step + 1), temp)

\* useEffect(..., [textInputs, signatureData, signaturePosition, tempState]):
\* r is the render whose effect runs, q the state its setters are queued on
EffectOnState(r, q) ==
    IF r.tempState # <<>>
    THEN [q EXCEPT !.history = SetHistoryUpdater(@, r.currentStep, r.tempState[1]),
                   !.currentStep = @ + 1,
                   !.tempState = <<>>]
    ELSE q

\* useEffect(..., [tempState])
EffectOnTempState(r, q) ==
    IF r.tempState # <<>> /\ q.pendingChanges
    THEN [q EXCEPT !.history = SetHistoryUpdater(@, r.currentStep, r.tempState[1]),
                   !.currentStep = @ + 1,
                   !.tempState = <<>>,
                   !.pendingChanges = FALSE]
    ELSE q

\* the effects of one render, in declaration order
RunEffects(r) == EffectOnTempState(r, EffectOnState(r, r))

\* render after a handler's setters, then again after the effects' setters
Render(s) == LET a == RunEffects(s) IN IF a = s THEN s ELSE RunEffects(a)

\* the component state after the handler left s queued
Commit(s) ==
    LET r == Render(s) IN
    /\ textInputs' = r.textInputs
    /\ signatureData' = r.signatureData
    /\ signaturePosition' = r.signaturePosition
    /\ history' = r.history
    /\ currentStep' = r.currentStep
    /\ tempState' = r.tempState
    /\ pendingChanges' = r.pendingChanges

\* applyState
applyState(s, snap) ==
    [s EXCEPT !.textInputs = snap.textInputs,
              !.signatureData = snap.signatureData,
              !.signaturePosition = snap.signaturePosition]

\* the document state a load can change, the history by its length
Doc == [pdfBytes |-> pdfBytes, fileUrl |-> fileUrl,
        pageDimensions |-> pageDimensions, len |-> Len(history),
        step |-> currentStep]

\* the step observed: op is the handler that ran
See(op, arg) ==
    /\ lastOp' = op
    /\ pre' = Before

\* a step that is no part of the load selected last ends its observation
Observe(op, arg) ==
    /\ See(op, arg)
    /\ sel' = <<>>
    /\ mark' = <<>>

NoRun == /\ undoBase' = <<>>
         /\ undoDepth' = 0

\* room for one more commit within the explored history length
Room == currentStep + 2 <= MaxHist

\* the editors as constructed, but for the arguments of a conversion
InitEditors ==
    /\ fileUrl = NULL
    /\ pdfBytes = NULL
    /\ pageDimensions = NoPage
    /\ containerHeight = 0
    /\ textInputs = <<>>
    /\ signatureData = NULL
    /\ signaturePosition = [x |-> DefaultSigX, y |-> DefaultSigY]
    /\ history = <<>>
    /\ currentStep = InitialStep
    /\ tempState = <<>>
    /\ pendingChanges = FALSE
    /\ timer = <<>>
    /\ drag = <<>>
    /\ loads = <<>>
    /\ clock = 0
    /\ containerWidth \in ContainerWidths
    /\ lastOp = "init"
    /\ pre = Before
    /\ undoBase = <<>>
    /\ undoDepth = 0
    /\ sel = <<>>
    /\ mark = <<>>
    /\ picked = <<>>
    /\ mounted = TRUE
    /\ saves = <<>>
    /\ placed = <<>>
    /\ canvas = NULL
    /\ pdfFile = NULL
    /\ isLoading = FALSE
    /\ background = NULL
    /\ inputFile = NULL
    /\ reads = 0

Init == InitEditors /\ call = <<>>

\* previewContainerRef.current.offsetHeight: the height containerHeight and
\* the 2px border above and below it
OffsetHeight == containerHeight + 2 * BorderWidth

\* previewContainerRef.current.getBoundingClientRect(): the border box
ContainerRect == [width |-> containerWidth, height |-> OffsetHeight]

\* the preview is rendered once fileUrl is set and clips what lies outside
\* it (overflow: hidden): a pointer event reaches what is inside its borders
Visible(p) == /\ fileUrl # NULL
              /\ p.x < containerWidth - 2 * BorderWidth
              /\ p.y < containerHeight

\* the row of a text box (its input, its delete button and the Undo, Redo and
\* Clear All buttons) is rendered per text box, at the top left of the preview
ControlsRendered == /\ textInputs # <<>>
                    /\ Visible([x |-> 0, y |-> 0])

\* --------------------------------------------------------- text boxes
\* handlePreviewClick: the container exists once fileUrl is set; now is the
\* value Date.now() returns, never earlier than its last value
handlePreviewClick(pt, now) ==
    /\ Visible(pt)
    /\ now >= clock /\ now >= 1
    /\ Len(textInputs) < MaxBoxes
    /\ Room
    /\ LET s == updateState(State, State) IN
       Commit([s EXCEPT !.textInputs =
                  Append(@, [id |-> now, x |-> pt.x, y |-> pt.y, value |-> ""])])
    /\ clock' = now
    /\ Observe("handlePreviewClick", now) /\ NoRun
    /\ UNCHANGED otherVars
    /\ UNCHANGED <<fileUrl, pdfBytes, pageDimensions, containerHeight, timer,
                   drag, loads, containerWidth>>

\* deleteTextInput: the button of a rendered text box
deleteTextInput(id) ==
    /\ ControlsRendered
    /\ \E i \in 1..Len(textInputs) : textInputs[i].id = id
    /\ Room
    /\ LET s == updateState(State, State)
           keep(input) == input.id # id IN
       Commit([s EXCEPT !.textInputs = SelectSeq(@, keep)])
    /\ Observe("deleteTextInput", id) /\ NoRun
    /\ UNCHANGED otherVars
    /\ UNCHANGED <<fileUrl, pdfBytes, pageDimensions, containerHeight, timer,
                   drag, loads, clock, containerWidth>>

\* prev.map(input => input.id === id ? { ...input, value } : input)
SetValue(inputs, id, value) ==
    [i \in 1..Len(inputs) |->
        IF inputs[i].id = id THEN [inputs[i] EXCEPT !.value = value] ELSE inputs[i]]

\* the function useDebouncedCallback returns: clearTimeout(timeoutRef.current),
\* then timeoutRef.current = setTimeout(...)
\* (DebouncedKeepsTimer: the pending timeout not cleared)
DebouncedKeepsTimer(timers, t) ==
    Append([i \in 1..Len(timers) |-> [timers[i] EXCEPT !.ref = FALSE]], t)

Debounced(timers, t) ==
    LET others(u) == ~u.ref IN Append(SelectSeq(timers, others), t)

\* the text input's onChange: the immediate update, then handleTextChange,
\* the debounced function of this render: it cancels the pending timeout and
\* schedules the callback of this render
onChange(id, newValue) ==
    /\ ControlsRendered
    /\ \E i \in 1..Len(textInputs) :
          textInputs[i].id = id /\ textInputs[i].value # newValue
    /\ Commit([State EXCEPT !.textInputs = SetValue(@, id, newValue)])
    /\ timer' = Debounced(timer, [id |-> id, value |-> newValue,
                                  closure |-> Live, ref |-> TRUE])
    /\ See("onChange", id) /\ NoRun
    /\ mark' = <<[op |-> "onChange",
                  value |-> [edits |-> IF timer # <<>> /\ mark # <<>>
                                            /\ mark[1].op = "onChange"
                                       THEN Min(mark[1].value.edits + 1, MaxBurst)
                                       ELSE 1]]>>
    /\ sel' = <<>>
    /\ UNCHANGED otherVars
    /\ UNCHANGED <<fileUrl, pdfBytes, pageDimensions, containerHeight,
                   drag, loads, clock, containerWidth>>

\* the timeout fires: the callback passed to useDebouncedCallback, as created
\* in the render that scheduled it
handleTextChange ==
    /\ timer # <<>>
    /\ Room
    /\ LET t == timer[1]
           s == updateState(t.closure, State) IN
       Commit([s EXCEPT !.textInputs = SetValue(@, t.id, t.value)])
    /\ timer' = Tail(timer)
    /\ See("handleTextChange", timer[1].id) /\ NoRun
    /\ mark' = <<[op |-> "handleTextChange",
                  value |-> [id |-> timer[1].id,
                             edits |-> IF mark # <<>> /\ mark[1].op = "onChange"
                                       THEN mark[1].value.edits ELSE 0,
                             fires |-> IF mark # <<>> /\ mark[1].op = "handleTextChange"
                                       THEN 2 ELSE 1]]>>
    /\ sel' = <<>>
    /\ UNCHANGED otherVars
    /\ UNCHANGED <<fileUrl, pdfBytes, pageDimensions, containerHeight,
                   drag, loads, clock, containerWidth>>

\* DocumentEditor unmounts: the cleanup of useDebouncedCallback's effect
\* clears the timeout timeoutRef.current names
unmount ==
    /\ mounted
    /\ mounted' = FALSE
    /\ LET others(u) == ~u.ref IN timer' = SelectSeq(timer, others)
    /\ See("unmount", 0) /\ NoRun
    /\ sel' = <<>>
    /\ mark' = <<[op |-> "unmount", value |-> [pending |-> Len(timer)]]>>
    /\ UNCHANGED <<fileUrl, pdfBytes, pageDimensions, containerHeight,
                   textInputs, signatureData, signaturePosition, history,
                   currentStep, tempState, pendingChanges, drag, loads, clock,
                   containerWidth, saveVars, canvasVars, picked>>

\* clearAll
clearAll ==
    /\ Room
    /\ LET s == updateState(State, State) IN
       Commit([s EXCEPT !.textInputs = <<>>,
                        !.signatureData = NULL,
                        !.signaturePosition = [x |-> DefaultSigX, y |-> DefaultSigY]])
    /\ See("clearAll", 0) /\ NoRun
    /\ mark' = <<[op |-> "clearAll", value |-> Live]>>
    /\ sel' = <<>>
    /\ UNCHANGED otherVars
    /\ UNCHANGED <<fileUrl, pdfBytes, pageDimensions, containerHeight, timer,
                   drag, loads, clock, containerWidth>>

\* ---------------------------------------------------------- undo / redo
UndoGuard == currentStep > 0
RedoGuard == currentStep < Len(history) - 1

\* handleUndo
handleUndo ==
    /\ IF UndoGuard
       THEN Commit(applyState([State EXCEPT !.currentStep = @ - 1], history[currentStep]))
       ELSE Commit(State)
    /\ See("handleUndo", 0)
    /\ mark' = IF lastOp \in {"handleUndo", "handleRedo"} THEN <<>> ELSE mark
    /\ sel' = <<>>
    /\ IF UndoGuard
       THEN /\ undoBase' = IF undoDepth = 0 THEN <<Live>> ELSE undoBase
            /\ undoDepth' = undoDepth + 1
       ELSE UNCHANGED <<undoBase, undoDepth>>
    /\ UNCHANGED otherVars
    /\ UNCHANGED <<fileUrl, pdfBytes, pageDimensions, containerHeight, timer,
                   drag, loads, clock, containerWidth>>

\* handleRedo
handleRedo ==
    /\ IF RedoGuard
       THEN Commit(applyState([State EXCEPT !.currentStep = @ + 1], history[currentStep + 2]))
       ELSE Commit(State)
    /\ See("handleRedo", 0)
    /\ mark' = IF /\ lastOp \notin {"handleUndo", "handleRedo"}
                  /\ mark # <<>> /\ mark[1].op = "handleFileChange"
               THEN mark ELSE <<>>
    /\ sel' = <<>>
    /\ undoDepth' = IF undoDepth > 0 THEN undoDepth - 1 ELSE 0
    /\ undoBase' = IF undoDepth > 0 THEN undoBase ELSE <<>>
    /\ UNCHANGED otherVars
    /\ UNCHANGED <<fileUrl, pdfBytes, pageDimensions, containerHeight, timer,
                   drag, loads, clock, containerWidth>>

\* ----------------------------------------------------------- signature
\* handleCaptureSignature: pad is what the signature pad holds (NULL when
\* sigPadRef.current.isEmpty()), toDataURL() its image
handleCaptureSignature(pad) ==
    /\ IF pad = NULL
       THEN Commit(State)
       ELSE Commit([State EXCEPT !.signatureData = pad,
                                 !.signaturePosition = [x |-> DefaultSigX, y |-> DefaultSigY]])
    /\ Observe(IF pad = NULL THEN "captureRejected" ELSE "handleCaptureSignature", 0)
    /\ NoRun
    /\ UNCHANGED otherVars
    /\ UNCHANGED <<fileUrl, pdfBytes, pageDimensions, containerHeight, timer,
                   drag, loads, clock, containerWidth>>

\* the rendered height of the 150px wide image of the full pad canvas
SigHeight == (SigCanvasH * SigWidth) \div SigCanvasW

\* handleSignatureMouseDown: the signature image is rendered inside the
\* preview when a signature is captured
handleSignatureMouseDown ==
    /\ signatureData # NULL
    /\ Visible(signaturePosition)
    /\ drag = <<>>
    /\ drag' = <<[initPos |-> signaturePosition]>>
    /\ Observe("handleSignatureMouseDown", 0) /\ NoRun
    /\ UNCHANGED otherVars
    /\ UNCHANGED <<fileUrl, pdfBytes, pageDimensions, containerHeight,
                   textInputs, signatureData, signaturePosition, history,
                   currentStep, tempState, pendingChanges, timer, loads,
                   clock, containerWidth>>

\* the position handleMouseMove sets
ClampedPosition(initPos, d, rect) ==
    LET maxX == rect.width - SigBoxW
        maxY == rect.height - SigBoxH IN
    [x |-> Max(MinMargin, Min(initPos.x + d.dx, maxX)),
     y |-> Max(MinMargin, Min(initPos.y + d.dy, maxY))]

\* handleMouseMove (document mousemove listener of the drag)
handleMouseMove(d) ==
    /\ drag # <<>>
    /\ Commit([State EXCEPT !.signaturePosition =
                  ClampedPosition(drag[1].initPos, d, ContainerRect)])
    /\ Observe("handleMouseMove", 0) /\ NoRun
    /\ UNCHANGED otherVars
    /\ UNCHANGED <<fileUrl, pdfBytes, pageDimensions, containerHeight, timer,
                   drag, loads, clock, containerWidth>>

\* handleMouseUp (document mouseup listener of the drag)
handleMouseUp ==
    /\ drag # <<>>
    /\ drag' = <<>>
    /\ See("handleMouseUp", 0) /\ NoRun
    /\ mark' = <<[op |-> "handleMouseUp", value |-> drag[1].initPos]>>
    /\ sel' = <<>>
    /\ UNCHANGED otherVars
    /\ UNCHANGED <<fileUrl, pdfBytes, pageDimensions, containerHeight,
                   textInputs, signatureData, signaturePosition, history,
                   currentStep, tempState, pendingChanges, timer, loads,
                   clock, containerWidth>>

\* ------------------------------------------------------- document load
RemoveAt(s, i) == SubSeq(s, 1, i - 1) \o SubSeq(s, i + 1, Len(s))

\* a step of the load selected last keeps its observation
ObserveLoad(op, i) ==
    /\ See(op, 0)
    /\ sel' = IF i = Len(loads) THEN sel ELSE <<>>
    /\ mark' = IF i = Len(loads) /\ mark # <<>> /\ mark[1].op = "handleFileChange"
               THEN mark ELSE <<>>
    /\ NoRun

\* setHistory([]); setCurrentStep(-1); setTempState(null)
ResetKeepsStep(s) == [s EXCEPT !.history = <<>>, !.tempState = <<>>]
ResetHistory(s) == [s EXCEPT !.history = <<>>,
                             !.currentStep = InitialStep,
                             !.tempState = <<>>]

\* handleFileChange up to its first await
handleFileChange(file) ==
    /\ IF file \in OtherFiles
       THEN /\ Commit(State)
            /\ UNCHANGED loads
            /\ sel' = <<>>
       ELSE /\ Commit(ResetHistory(State))
            /\ loads' = Append(loads, [file |-> file, pc |-> "arrayBuffer"])
            /\ sel' = <<Doc>>
    /\ See(IF file \in OtherFiles THEN "rejectFile" ELSE "handleFileChange", 0)
    /\ mark' = IF file \in OtherFiles THEN <<>>
               ELSE <<[op |-> "handleFileChange",
                       value |-> [live |-> Live, len |-> Len(history),
                                  step |-> currentStep]]>>
    /\ picked' = IF file \in OtherFiles THEN picked
                 ELSE <<[file |-> file, overlap |-> loads # <<>>]>>
    /\ NoRun
    /\ UNCHANGED <<mounted, saveVars, canvasVars>>
    /\ UNCHANGED <<fileUrl, pdfBytes, pageDimensions, containerHeight, timer,
                   drag, clock, containerWidth>>

\* await file.arrayBuffer() resumes: setPdfBytes, setFileUrl, PDFDocument.load
arrayBufferResolved(i) ==
    /\ i \in 1..Len(loads)
    /\ loads[i].pc = "arrayBuffer"
    /\ pdfBytes' = loads[i].file
    /\ fileUrl' = loads[i].file
    /\ loads' = [loads EXCEPT ![i].pc = "load"]
    /\ ObserveLoad("arrayBufferResolved", i)
    /\ UNCHANGED otherVars
    /\ UNCHANGED <<pageDimensions, containerHeight, textInputs, signatureData,
                   signaturePosition, history, currentStep, tempState,
                   pendingChanges, timer, drag, clock, containerWidth>>

\* await PDFDocument.load(arrayBuffer) resumes: setPageDimensions, setTimeout
loadResolved(i) ==
    /\ i \in 1..Len(loads)
    /\ loads[i].pc = "load"
    /\ loads[i].file \in PdfFiles
    /\ pageDimensions' = PageSize(loads[i].file)
    /\ loads' = [loads EXCEPT ![i].pc = "setTimeout"]
    /\ ObserveLoad("loadResolved", i)
    /\ UNCHANGED otherVars
    /\ UNCHANGED <<fileUrl, pdfBytes, containerHeight, textInputs, signatureData,
                   signaturePosition, history, currentStep, tempState,
                   pendingChanges, timer, drag, clock, containerWidth>>

\* either await throws: catch, console.error, alert
loadRejected(i) ==
    /\ i \in 1..Len(loads)
    /\ \/ loads[i].pc = "arrayBuffer"
       \/ loads[i].pc = "load" /\ loads[i].file \in BadFiles
    /\ loads' = RemoveAt(loads, i)
    /\ ObserveLoad(IF loads[i].pc = "load" THEN "loadRejected" ELSE "arrayBufferRejected", i)
    /\ UNCHANGED otherVars
    /\ UNCHANGED <<fileUrl, pdfBytes, pageDimensions, containerHeight, textInputs,
                   signatureData, signaturePosition, history, currentStep,
                   tempState, pendingChanges, timer, drag, clock,
                   containerWidth>>

\* the setTimeout(..., 0) callback: the container is mounted (fileUrl is set)
measureContainer(i) ==
    /\ i \in 1..Len(loads)
    /\ loads[i].pc = "setTimeout"
    /\ LET size == PageSize(loads[i].file) IN
       containerHeight' = IF fileUrl # NULL
                          THEN (size.height * containerWidth) \div size.width
                          ELSE containerHeight
    /\ loads' = RemoveAt(loads, i)
    /\ ObserveLoad("measureContainer", i)
    /\ UNCHANGED otherVars
    /\ UNCHANGED <<fileUrl, pdfBytes, pageDimensions, textInputs, signatureData,
                   signaturePosition, history, currentStep, tempState,
                   pendingChanges, timer, drag, clock, containerWidth>>

\* ----------------------------------------------------------------- save
\* convertToPdfCoordinates(x, y) with the container's offsetWidth cw and
\* offsetHeight ch and the pageDimensions page of the calling render
\* (convertUnflipped: the y axis left pointing down)
convertUnflipped(x, y, cw, ch, page) ==
    [x |-> Mul(Div(Num(x), Num(cw)), Num(page.width)),
     y |-> Mul(Div(Num(y), Num(ch)), Num(page.height))]

convertToPdfCoordinates(x, y, cw, ch, page) ==
    [x |-> Mul(Div(Num(x), Num(cw)), Num(page.width)),
     y |-> Sub(Num(page.height), Mul(Div(Num(y), Num(ch)), Num(page.height)))]

\* the options handleSavePdf gives firstPage.drawImage for the signature
\* converted to at: pngImage is the pad's canvas, SigCanvasW x SigCanvasH
DrawImageOptions(at) ==
    LET h == Mul(Num(SigCanvasH), Div(Num(SigWidth), Num(SigCanvasW))) IN
    [x |-> at.x, y |-> Sub(at.y, h), width |-> Num(SigWidth), height |-> h]

\* one call of convertToPdfCoordinates with the arguments given, and the
\* drawImage options for a signature at that point
convert ==
    /\ call # <<>>
    /\ placed = <<>>
    /\ placed' = <<[points |-> <<convertToPdfCoordinates(call[1].points[1].x,
                         call[1].points[1].y, call[1].cw, call[1].ch, call[1].page)>>,
                    image |-> <<DrawImageOptions(convertToPdfCoordinates(
                         call[1].points[1].x, call[1].points[1].y,
                         call[1].cw, call[1].ch, call[1].page))>>]>>
    /\ Observe("convertToPdfCoordinates", 0) /\ NoRun
    /\ UNCHANGED <<progVars, mounted, picked, saves, call, canvasVars>>

\* !value.trim()
Blank(value) == value = ""

\* the points handleSavePdf converts: the signature position when there is
\* a signature, then the position of every text box that is not blank
PointsToPlace(c) ==
    LET written(input) == ~Blank(input.value)
        boxes == SelectSeq(c.textInputs, written) IN
    (IF c.signatureData # NULL THEN <<c.signaturePosition>> ELSE <<>>)
        \o [i \in 1..Len(boxes) |-> [x |-> boxes[i].x, y |-> boxes[i].y]]

\* every conversion of one call sequence a
ConvertAll(a) ==
    [i \in 1..Len(a.points) |->
        convertToPdfCoordinates(a.points[i].x, a.points[i].y, a.cw, a.ch, a.page)]

\* handleSavePdf from the embedding of the signature to pdfDoc.save(): c is
\* the render the handler was called in, the container is read as it is now
EmbedAll(c, op) ==
    LET a == [points |-> PointsToPlace(c), cw |-> containerWidth,
              ch |-> OffsetHeight, page |-> c.pageDimensions,
              height |-> containerHeight] IN
    IF a.points = <<>>
    THEN /\ saves' = <<[c EXCEPT !.pc = "save"]>>
         /\ call' = <<>> /\ placed' = <<>>
         /\ Observe(op, 0)
    ELSE IF fileUrl = NULL
    THEN /\ saves' = <<>>
         /\ call' = <<>> /\ placed' = <<>>
         /\ Observe("saveRejected", 0)
    ELSE /\ saves' = <<[c EXCEPT !.pc = "save"]>>
         /\ call' = <<a>>
         /\ placed' = <<[points |-> ConvertAll(a),
                         image |-> IF c.signatureData # NULL
                                   THEN <<DrawImageOptions(ConvertAll(a)[1])>>
                                   ELSE <<>>]>>
         /\ Observe(op, 0)

\* handleSavePdf up to await PDFDocument.load(pdfBytes); the Save PDF button
\* is disabled while pdfBytes is null
handleSavePdf ==
    /\ pdfBytes # NULL
    /\ Len(saves) < MaxSaves
    /\ saves' = Append(saves, [pc |-> "load", pdfBytes |-> pdfBytes,
                               signatureData |-> signatureData,
                               signaturePosition |-> signaturePosition,
                               textInputs |-> textInputs,
                               pageDimensions |-> pageDimensions])
    /\ Observe("handleSavePdf", 0) /\ NoRun
    /\ UNCHANGED <<progVars, mounted, picked, call, placed, canvasVars>>

\* await PDFDocument.load(pdfBytes) resumes
saveLoadResolved ==
    /\ saves # <<>>
    /\ saves[1].pc = "load"
    /\ saves[1].pdfBytes \in PdfFiles
    /\ IF saves[1].signatureData # NULL
       THEN /\ saves' = <<[saves[1] EXCEPT !.pc = "embedPng"]>>
            /\ Observe("saveLoadResolved", 0)
            /\ UNCHANGED <<call, placed>>
       ELSE EmbedAll(saves[1], "saveLoadResolved")
    /\ NoRun
    /\ UNCHANGED <<progVars, mounted, picked, canvasVars>>

\* await pdfDoc.embedPng(signatureData) resumes
saveEmbedResolved ==
    /\ saves # <<>>
    /\ saves[1].pc = "embedPng"
    /\ EmbedAll(saves[1], "saveEmbedResolved")
    /\ NoRun
    /\ UNCHANGED <<progVars, mounted, picked, canvasVars>>

\* PDFDocument.load throws: catch, console.error, alert
saveRejected ==
    /\ saves # <<>>
    /\ saves[1].pc = "load"
    /\ saves[1].pdfBytes \in BadFiles
    /\ saves' = <<>>
    /\ Observe("saveRejected", 0) /\ NoRun
    /\ UNCHANGED <<progVars, mounted, picked, call, placed, canvasVars>>

\* await pdfDoc.save() resumes: downloadPdf
downloadPdf ==
    /\ saves # <<>>
    /\ saves[1].pc = "save"
    /\ saves' = <<>>
    /\ Observe("downloadPdf", 0) /\ NoRun
    /\ UNCHANGED <<progVars, mounted, picked, call, placed, canvasVars>>

\* -------------------------------------------------------- canvas editor
\* PDFEditor (src/src/Component/DocEdi.js)
\* useEffect(..., []) after the first render: setCanvas(new fabric.Canvas)
initCanvas ==
    /\ canvas = NULL
    /\ canvas' = "fabric"
    /\ Observe("initCanvas", 0) /\ NoRun
    /\ UNCHANGED <<progVars, mounted, picked, saveVars, pdfFile, isLoading, background,
                   inputFile, reads>>

\* the callback of fabric.Image.fromURL(placeholder) of the effect on canvas
placeholderLoaded ==
    /\ canvas # NULL
    /\ background = NULL
    /\ background' = "placeholder"
    /\ Observe("placeholderLoaded", 0) /\ NoRun
    /\ UNCHANGED <<progVars, mounted, picked, saveVars, canvas, pdfFile, isLoading,
                   inputFile, reads>>

\* the file input's onChange, testPdfRead: it is given the change event, on
\* which arrayBuffer is not a function, so its promise is rejected at once;
\* the input changes when another file is chosen
testPdfRead(file) ==
    /\ file # inputFile
    /\ reads < MaxReads
    /\ inputFile' = file
    /\ reads' = reads + 1
    /\ Observe("testPdfRead", 0) /\ NoRun
    /\ UNCHANGED <<progVars, mounted, picked, saveVars, canvas, pdfFile, isLoading,
                   background>>

\* the rejection of a testPdfRead promise, which nothing handles, is reported
unhandledRejection ==
    /\ reads > 0
    /\ reads' = reads - 1
    /\ Observe("unhandledRejection", 0) /\ NoRun
    /\ UNCHANGED <<progVars, mounted, picked, saveVars, canvas, pdfFile, isLoading,
                   background, inputFile>>

\* disabled={!canvas || isLoading || !pdfFile} of Add Text, Add Signature
\* and Save PDF
ToolbarDisabled == canvas = NULL \/ isLoading \/ pdfFile = NULL

\* -------------------------------------------------------- specifications
\* the steps of a suspended handleFileChange
\* the file input is used while fewer than n loads are in flight (a file
\* that is no PDF starts none)
LoadRoom(f, n) == f \in OtherFiles \/ Len(loads) < n

LoadSteps ==
    \/ \E i \in 1..MaxLoads : arrayBufferResolved(i)
    \/ \E i \in 1..MaxLoads : loadResolved(i)
    \/ \E i \in 1..MaxLoads : loadRejected(i)
    \/ \E i \in 1..MaxLoads : measureContainer(i)

\* a text editing session: every handler that commits to the history, undo
\* and redo, and the document load that resets it; every click reads a later
\* Date.now() than the click before
Next ==
    \/ \E pt \in ClickPoints, now \in (clock + 1)..MaxClock : handlePreviewClick(pt, now)
    \/ \E id \in 1..MaxClock : deleteTextInput(id)
    \/ \E id \in 1..MaxClock, v \in Values : onChange(id, v)
    \/ handleTextChange
    \/ ControlsRendered /\ clearAll
    \/ ControlsRendered /\ handleUndo
    \/ ControlsRendered /\ handleRedo
    \/ \E f \in SessionFiles : LoadRoom(f, MaxLoads) /\ handleFileChange(f)
    \/ LoadSteps

Spec == Init /\ [][Next]_vars

\* a signing session: one text box at most, the signature captured and
\* dragged
NextSig ==
    \/ \E pt \in ClickPoints :
          Len(textInputs) < MaxSigBoxes /\ handlePreviewClick(pt, 1)
    \/ ControlsRendered /\ clearAll
    \/ ControlsRendered /\ handleUndo
    \/ ControlsRendered /\ handleRedo
    \/ \E pad \in Drawings \cup {NULL} : handleCaptureSignature(pad)
    \/ handleSignatureMouseDown
    \/ \E d \in DragDeltas : handleMouseMove(d)
    \/ handleMouseUp
    \/ \E f \in SessionFiles : LoadRoom(f, MaxLoads) /\ handleFileChange(f)
    \/ LoadSteps

\* text boxes added and deleted, also by clicks that read the same Date.now()
NextBoxes ==
    \/ \E pt \in ClickPoints, now \in 1..MaxClock : handlePreviewClick(pt, now)
    \/ \E id \in 1..MaxClock : deleteTextInput(id)
    \/ ControlsRendered /\ handleUndo
    \/ \E f \in SessionFiles : LoadRoom(f, MaxLoads) /\ handleFileChange(f)
    \/ LoadSteps

SpecBoxes == Init /\ [][NextBoxes]_vars

SpecSig == Init /\ [][NextSig]_vars

\* the handlers of a signing session as the component defines them: clearAll,
\* handleUndo and handleRedo are called in any state, also when no text box
\* renders their buttons
NextHandlers ==
    \/ \E pt \in ClickPoints :
          Len(textInputs) < MaxSigBoxes /\ handlePreviewClick(pt, 1)
    \/ clearAll
    \/ handleUndo
    \/ handleRedo
    \/ \E pad \in Drawings \cup {NULL} : handleCaptureSignature(pad)
    \/ handleSignatureMouseDown
    \/ \E d \in DragDeltas : handleMouseMove(d)
    \/ handleMouseUp
    \/ \E f \in SessionFiles : LoadRoom(f, MaxLoads) /\ handleFileChange(f)
    \/ LoadSteps

SpecHandlers == Init /\ [][NextHandlers]_vars

\* document loads of every kind of file, between clicks, clear all, undo
\* and redo
NextLoad ==
    \/ \E pt \in ClickPoints :
          Len(textInputs) < MaxSigBoxes /\ handlePreviewClick(pt, 1)
    \/ ControlsRendered /\ clearAll
    \/ ControlsRendered /\ handleUndo
    \/ ControlsRendered /\ handleRedo
    \/ \E f \in PdfFiles \cup BadFiles \cup OtherFiles : LoadRoom(f, MaxLoads) /\ handleFileChange(f)
    \/ LoadSteps

SpecLoad == Init /\ [][NextLoad]_vars

\* saving: a signature and a text box placed on the page, the file selected
\* and Save PDF pressed in any order the page allows
NextSave ==
    \/ \E pt \in ClickPoints :
          Len(textInputs) < MaxSigBoxes /\ handlePreviewClick(pt, 1)
    \/ \E id \in 1..MaxClock, v \in Values : onChange(id, v)
    \/ handleTextChange
    \/ \E pad \in Drawings : handleCaptureSignature(pad)
    \/ \E f \in SessionFiles \cup BadFiles : LoadRoom(f, MaxLoads) /\ handleFileChange(f)
    \/ LoadSteps
    \/ handleSavePdf
    \/ saveLoadResolved
    \/ saveEmbedResolved
    \/ saveRejected
    \/ downloadPdf

SpecSave == Init /\ [][NextSave]_vars

\* typing: bursts of edits of a text box and the timeout that follows them,
\* until the editor unmounts; a timeout fires whether or not it is mounted
NextDebounce ==
    \/ \E pt \in ClickPoints :
          mounted /\ Len(textInputs) < MaxSigBoxes /\ handlePreviewClick(pt, 1)
    \/ \E id \in 1..MaxClock, v \in BurstValues : mounted /\ onChange(id, v)
    \/ handleTextChange
    \/ \E f \in SessionFiles : mounted /\ LoadRoom(f, MaxLoads) /\ handleFileChange(f)
    \/ mounted /\ LoadSteps
    \/ unmount

SpecDebounce == Init /\ [][NextDebounce]_vars

\* overlapping loads: a document is selected while another is still being
\* read or parsed, and every read and parse succeeds, in any order
NextOverlap ==
    \/ \E f \in PdfFiles : LoadRoom(f, MaxOverlap) /\ handleFileChange(f)
    \/ \E i \in 1..MaxOverlap : arrayBufferResolved(i)
    \/ \E i \in 1..MaxOverlap : loadResolved(i)
    \/ \E i \in 1..MaxOverlap : measureContainer(i)

SpecOverlap == Init /\ [][NextOverlap]_vars

\* the coordinate conversion applied to every point and geometry of the
\* input domains
InitTransform ==
    /\ InitEditors
    /\ call \in {<<[points |-> <<[x |-> x, y |-> y]>>, cw |-> g.cw, ch |-> g.ch,
                    page |-> g.page, height |-> g.ch - 2 * BorderWidth]>> :
                      x \in OverlayXs, y \in OverlayYs, g \in Geometries}

NextTransform == convert

SpecTransform == InitTransform /\ [][NextTransform]_vars

\* the canvas editor: what its page lets happen (the toolbar buttons stay
\* disabled, see ToolbarDisabled)
NextCanvas ==
    \/ initCanvas
    \/ placeholderLoaded
    \/ \E f \in PdfFiles \cup BadFiles \cup OtherFiles : testPdfRead(f)
    \/ unhandledRejection

SpecCanvas == Init /\ [][NextCanvas]_vars

\* ------------------------------------------------------------- claims
\* the handlers that commit a snapshot
CommitOps == {"handlePreviewClick", "deleteTextInput", "handleTextChange", "clearAll"}

\* the discrete user actions that change editable state
UserActions == CommitOps \cup {"handleCaptureSignature"}

DefaultPosition == [x |-> DefaultSigX, y |-> DefaultSigY]

\* C1: whenever the history holds a snapshot, the cursor indexes one of its
\* snapshots: 0 <= currentStep < length(history).
C1_CursorIndexesSnapshot ==
    Len(history) > 0 => (0 <= currentStep /\ currentStep < Len(history))

\* C2: k undos that took effect, followed by k redos, leave the live state
\* that was live before the first of the undos.
C2_UndoRedoRoundTrip ==
    (lastOp = "handleRedo" /\ undoBase # <<>> /\ undoDepth = 0)
        => Live = undoBase[1]

\* C3: every discrete user action appends exactly one snapshot at cursor + 1
\* and advances the cursor by exactly one.
C3_OneSnapshotPerAction ==
    lastOp \in UserActions
        => (currentStep = pre.step + 1 /\ Len(history) = pre.step + 2)

\* C4: a commit that follows an undo (or is made while a redo is available)
\* keeps the snapshots up to the cursor, puts its one snapshot after them and
\* leaves nothing else: redo is a no-op right after it.
C4_CommitPrunesRedoBranch ==
    [][((lastOp = "handleUndo" \/ RedoGuard) /\ lastOp' \in CommitOps)
          => /\ ~RedoGuard'
             /\ Len(history') = currentStep + 2
             /\ SubSeq(history', 1, currentStep + 1) = SubSeq(history, 1, currentStep + 1)
             /\ history'[currentStep + 2] =
                   IF lastOp' = "handleTextChange" THEN timer[1].closure ELSE Live]_vars

\* a commit has just discarded a redo branch that undos had left
C4_Witness ==
    /\ lastOp \in CommitOps
    /\ pre.step < pre.len - 1
    /\ Len(history) <= pre.len

\* C5: clearAll followed at once by one undo restores the text annotations,
\* the signature data and the signature position live before clearAll.
C5_ClearAllUndoRestores ==
    (lastOp = "handleUndo" /\ mark # <<>> /\ mark[1].op = "clearAll")
        => Live = mark[1].value

\* clearAll was undone and a text box and a dragged signature are back
C5_Witness ==
    /\ lastOp = "handleUndo" /\ mark # <<>> /\ mark[1].op = "clearAll"
    /\ textInputs # <<>>
    /\ signatureData # NULL
    /\ signaturePosition # DefaultPosition

\* C6: selecting a PDF leaves the history empty and the cursor at -1,
\* whatever they were; they stay so while the file loads, and an undo or redo
\* invoked before any new action finds nothing to apply and changes nothing.
C6_LoadResetsHistory ==
    (mark # <<>> /\ mark[1].op = "handleFileChange")
        => /\ history = <<>> /\ currentStep = InitialStep
           /\ ~UndoGuard /\ ~RedoGuard
           /\ Live = mark[1].value.live

\* undo was invoked after a PDF, selected over a history of several snapshots
\* in which undo was enabled, had loaded
C6_Witness ==
    /\ lastOp = "handleUndo" /\ mark # <<>> /\ mark[1].op = "handleFileChange"
    /\ mark[1].value.len >= 2 /\ mark[1].value.step >= 1
    /\ textInputs # <<>>
    /\ loads = <<>> /\ fileUrl \in PdfFiles

\* C7: the pointer-moves of a drag add no history entry, the pointer-up
\* commits exactly one, and one undo after it restores the position held at
\* pointer-down.
C7_DragIsOneEntry ==
    /\ lastOp = "handleMouseMove"
          => (Len(history) = pre.len /\ currentStep = pre.step)
    /\ (lastOp = "handleMouseUp" /\ mark[1].value # signaturePosition)
          => (currentStep = pre.step + 1 /\ Len(history) = pre.step + 2)
    /\ (lastOp = "handleUndo" /\ mark # <<>> /\ mark[1].op = "handleMouseUp")
          => signaturePosition = mark[1].value

\* C8: every position a pointer-move sets keeps the signature, 150px wide and
\* of its rendered height, inside the preview with 10px to every edge.
C8_DragStaysInsidePreview ==
    lastOp = "handleMouseMove"
        => /\ signaturePosition.x >= MinMargin
           /\ signaturePosition.y >= MinMargin
           /\ signaturePosition.x + SigWidth + MinMargin <= ContainerRect.width
           /\ signaturePosition.y + SigHeight + MinMargin <= ContainerRect.height

\* C9: deleteTextInput(id) removes exactly one annotation, the one whose
\* identifier is id, and leaves the others and their order as they were.
C9_DeleteRemovesExactlyOne ==
    [][\A id \in 1..MaxClock :
          deleteTextInput(id)
             => \E i \in 1..Len(textInputs) :
                   /\ textInputs[i].id = id
                   /\ textInputs' = RemoveAt(textInputs, i)]_vars

\* C10: when the load of a selected file fails, the document bytes, the
\* preview URL, the page dimensions, the history and the cursor are what they
\* were before the file was selected.
C10_FailedLoadChangesNothing ==
    (lastOp \in {"loadRejected", "arrayBufferRejected"} /\ sel # <<>>)
        => Doc = sel[1]

\* C11: whenever handleSavePdf converts a point, the geometry is known: the
\* page dimensions it uses and the measured height of the preview are not
\* zero, and no division by zero has made a coordinate infinite or NaN.
C11_SaveNeedsGeometry ==
    call # <<>>
        => /\ call[1].page.width > 0 /\ call[1].page.height > 0
           /\ call[1].cw > 0 /\ call[1].height > 0
           /\ \A i \in 1..Len(placed[1].points) :
                 placed[1].points[i].x.k = "num" /\ placed[1].points[i].y.k = "num"

\* the conversion of the point (x, y) in the 800 x 1000 preview of a
\* 612 x 792 page gave (px, py)
Maps(x, y, px, py) ==
    (call[1].cw = 800 /\ call[1].ch = 1000 /\ call[1].page = [width |-> 612, height |-> 792]
        /\ call[1].points[1] = [x |-> x, y |-> y])
    => placed[1].points[1] = [x |-> Num(px), y |-> Num(py)]

\* C12: convertToPdfCoordinates returns pdfX = (x / pw) * PW and
\* pdfY = PH - (y / ph) * PH; in an 800 x 1000 preview of a 612 x 792 page it
\* maps (0,0) to (0,792), (800,1000) to (612,0) and (400,500) to (306,396);
\* the signature image is drawn at pdfY minus its rendered height.
C12_CoordinateTransform ==
    lastOp = "convertToPdfCoordinates"
        => LET a == call[1]
               r == placed[1].points[1]
               img == placed[1].image[1] IN
           /\ r.x.k = "num" /\ r.y.k = "num"
           /\ r.x.n * a.cw = a.points[1].x * a.page.width * r.x.d
           /\ (a.page.height * r.y.d - r.y.n) * a.ch
                  = a.points[1].y * a.page.height * r.y.d
           /\ Maps(0, 0, 0, 792)
           /\ Maps(800, 1000, 612, 0)
           /\ Maps(400, 500, 306, 396)
           /\ img.x = r.x
           /\ img.height = Num(SigHeight)
           /\ img.y.k = "num" /\ img.y.d = r.y.d
           /\ img.y.n = r.y.n - SigHeight * r.y.d

\* the centre of the 800 x 1000 preview was converted to the centre of the
\* 612 x 792 page
C12_Witness ==
    /\ lastOp = "convertToPdfCoordinates"
    /\ call[1].cw = 800 /\ call[1].ch = 1000
    /\ call[1].points[1] = [x |-> 400, y |-> 500]
    /\ placed[1].points[1] = [x |-> Num(306), y |-> Num(396)]
    /\ placed[1].image[1].y = Num(336)

\* C13: once everything that selecting a PDF in the canvas editor's file
\* input started has finished, the file is the current document (pdfFile),
\* page one of it is the canvas background and Add Text, Add Signature and
\* Save PDF are enabled.
C13_CanvasLoadsSelectedPdf ==
    (inputFile \in PdfFiles /\ canvas # NULL /\ reads = 0)
        => /\ pdfFile = inputFile
           /\ background = inputFile
           /\ ~ToolbarDisabled

\* the live state b is the live state a but for the value of text box id
SameButValue(a, b, id) ==
    /\ a.signatureData = b.signatureData
    /\ a.signaturePosition = b.signaturePosition
    /\ Len(a.textInputs) = Len(b.textInputs)
    /\ \A i \in 1..Len(a.textInputs) :
          /\ a.textInputs[i].id = b.textInputs[i].id
          /\ a.textInputs[i].x = b.textInputs[i].x
          /\ a.textInputs[i].y = b.textInputs[i].y
          /\ a.textInputs[i].id # id
                => a.textInputs[i].value = b.textInputs[i].value

\* C14: the snapshot an action records is the live state right before the
\* action's mutation, also for a debounced text edit with another action
\* inside its debounce window: one undo right after the commit of a text
\* edit changes nothing but the value of the text box edited.
C14_SnapshotIsPreMutation ==
    [][/\ lastOp' \in {"handlePreviewClick", "deleteTextInput", "clearAll"}
             => history'[Len(history')] = Live
       /\ (lastOp = "handleTextChange" /\ lastOp' = "handleUndo" /\ UndoGuard)
             => SameButValue(Live, Live', mark[1].value.id)]_vars

\* C15: at most one debounce timeout is pending at any time; an edit leaves
\* exactly one pending, its own; the timeout of a burst of edits calls the
\* history update once, never twice in a row and never once per keystroke;
\* after the unmount no timeout is pending, so none fires.
C15_OneTimerOneCommit ==
    /\ Len(timer) <= 1
    /\ lastOp = "onChange"
          => /\ Len(timer) = 1
             /\ \E i \in 1..Len(textInputs) :
                   /\ textInputs[i].id = timer[1].id
                   /\ textInputs[i].value = timer[1].value
    /\ lastOp = "handleTextChange"
          => /\ timer = <<>>
             /\ mark[1].value.fires = 1
    /\ ~mounted => /\ timer = <<>>
                   /\ lastOp = "unmount"

\* a burst of two edits or more has been followed by its one timeout
C15_Witness ==
    /\ lastOp = "handleTextChange"
    /\ mark[1].value.edits >= 2
    /\ mark[1].value.fires = 1
    /\ timer = <<>>

\* C16: when a document was selected while another load was in flight and
\* every load has completed, the document bytes, the preview URL and the
\* page dimensions are those of the document selected last.
C16_OverlappingLoadsKeepLast ==
    (picked # <<>> /\ picked[1].overlap /\ loads = <<>>)
        => /\ pdfBytes = picked[1].file
           /\ fileUrl = picked[1].file
           /\ pageDimensions = PageSize(picked[1].file)
====
